---- MODULE Spec2Model ----
(***************************************************************************)
(* Model of DigitalGel.py: Band, Lane, Gel and drawParams.                 *)
(*                                                                         *)
(* The svgwrite drawing is a sequence of elements (rectangles and texts)   *)
(* in the order dwg.add appends them.  Floating point values are kept      *)
(* exact: math.log10 is a fixed-point table (5 decimals), the row          *)
(* quotient is an integer division truncated toward zero as int() does,    *)
(* and intensities are fractions [num, den].  A Python exception is an     *)
(* error name carried next to the partial result.                          *)
(***************************************************************************)
EXTENDS Integers, Sequences, FiniteSets, TLC

\* ------------------------------------------------------------------ bounds
MaxLanes == 2   \* data lanes handed to Gel(...)
MaxBands == 2   \* bands in all data lanes together
MaxDraws == 2   \* calls of Gel.draw() on one Gel

\* ------------------------------------------------------- program constants
newMinInit == 1000
newMaxInit == 0
LabelRow == 10
LogScale == 100000

DefaultLadder ==
    <<25, 50, 75, 100, 125, 150, 200, 250, 300, 400, 500, 600, 700, 800, 900,
      1000, 1250, 1500, 1750, 2000>>
DefaultBoldLadder == {50, 100, 200, 500, 1000, 1500}

\* drawParams(): the defaults of the constructor
DefaultParams ==
    [gelHeight |-> 400, margin |-> 60, laneWidth |-> 30, gapWidth |-> 20,
     fontsize |-> 12, dilationFactor |-> 5]

\* ---------------------------------------------------------------- numbers
\* A float the program computes exactly: the fraction num / den, den > 0
Frac(n, d) == [num |-> n, den |-> d]
FSub(a, b) == Frac(a.num * b.den - b.num * a.den, a.den * b.den)
FDiv(a, b) == Frac(a.num * b.den, a.den * b.num)
FLess(a, b) == a.num * b.den < b.num * a.den
FEq(a, b) == a.num * b.den = b.num * a.den
FMax(a, b) == IF FLess(a, b) THEN b ELSE a

\* Band.__init__ (annot and link do not influence the layout)
Band(numBases, reads) == [numBases |-> numBases, reads |-> Frac(reads, 1)]

\* ------------------------------------------------------------ input sets
\* drawParams(gelHeight=20, margin=10, laneWidth=8, gapWidth=4, dilationFactor=2)
SmallParams ==
    [gelHeight |-> 20, margin |-> 10, laneWidth |-> 8, gapWidth |-> 4,
     fontsize |-> 12, dilationFactor |-> 2]
ParamSet == {DefaultParams, SmallParams}

\* Ascending marker lists passed as Gel(..., ladder=...)
LadderSet == {DefaultLadder, <<50, 100>>, <<1500, 2000>>}

\* Band(numBases, reads=...) objects the caller may put into a lane
BandPool ==
    { Band(0, 5), Band(110, 10), Band(111, 1), Band(150, 0), Band(1300, 5) }

SeqsUpTo(S, n) == UNION { [1..k -> S] : k \in 0..n }

\* The lists of exactly n band lists that hold at most budget bands together
RECURSIVE ListsOf(_, _)
ListsOf(n, budget) ==
    IF n = 0 THEN { <<>> }
    ELSE UNION { { <<b>> \o rest : rest \in ListsOf(n - 1, budget - Len(b)) } :
                 b \in SeqsUpTo(BandPool, budget) }

\* All lists of at most MaxLanes band lists holding at most MaxBands bands
LaneLists == UNION { ListsOf(n, MaxBands) : n \in 0..MaxLanes }

\* ------------------------------------------------------------------ Lane
\* Lane.__init__: copies gelHeight and dilationFactor from its dParam
Lane(bands, dp, isLadder) ==
    [bands |-> bands, isLadder |-> isLadder,
     gelHeight |-> dp.gelHeight, dilationFactor |-> dp.dilationFactor]

\* math.log10 on the lengths of the model, times LogScale, rounded
Log10 ==
    25 :> 139794 @@ 50 :> 169897 @@ 75 :> 187506 @@ 100 :> 200000 @@
    110 :> 204139 @@ 111 :> 204532 @@ 125 :> 209691 @@ 150 :> 217609 @@
    200 :> 230103 @@ 250 :> 239794 @@ 300 :> 247712 @@ 400 :> 260206 @@
    500 :> 269897 @@ 600 :> 277815 @@ 700 :> 284510 @@ 800 :> 290309 @@
    900 :> 295424 @@ 1000 :> 300000 @@ 1250 :> 309691 @@ 1300 :> 311394 @@
    1500 :> 317609 @@ 1750 :> 324304 @@ 2000 :> 330103

\* math.log10 raises ValueError on a length <= 0
LogDefined(numBases) == numBases > 0

\* Lane.__distance, times LogScale
distance(lane, numBases) == lane.dilationFactor * (4 * LogScale - Log10[numBases])

\* int(): truncation toward zero of n / d
TruncDiv(n, d) ==
    IF (n >= 0) = (d > 0)
    THEN (IF n >= 0 THEN n ELSE -n) \div (IF d > 0 THEN d ELSE -d)
    ELSE -((IF n >= 0 THEN n ELSE -n) \div (IF d > 0 THEN d ELSE -d))

\* lengthtoIndex scaled by gelHeight instead of gelHeight - 1
lengthtoIndexFull(lane, band, low, high) ==
    IF ~LogDefined(high) \/ ~LogDefined(low) \/ ~LogDefined(band.numBases)
    THEN [err |-> "ValueError", val |-> 0]
    ELSE LET minimum   == distance(lane, high)
             expFactor == distance(lane, low) - minimum
         IN  IF expFactor = 0
             THEN [err |-> "ZeroDivisionError", val |-> 0]
             ELSE [err |-> "none",
                   val |-> TruncDiv((distance(lane, band.numBases) - minimum)
                                      * lane.gelHeight, expFactor)]

\* Lane.__lengthtoIndex: [err, val]
lengthtoIndex(lane, band, low, high) ==
    IF ~LogDefined(high) \/ ~LogDefined(low) \/ ~LogDefined(band.numBases)
    THEN [err |-> "ValueError", val |-> 0]
    ELSE LET minimum   == distance(lane, high)
             expFactor == distance(lane, low) - minimum
         IN  IF expFactor = 0
             THEN [err |-> "ZeroDivisionError", val |-> 0]
             ELSE [err |-> "none",
                   val |-> TruncDiv((distance(lane, band.numBases) - minimum)
                                      * (lane.gelHeight - 1), expFactor)]

\* max(b.reads for b in self.bands) of a non-empty band list
RECURSIVE MaxReads(_)
MaxReads(bands) ==
    IF Len(bands) = 1 THEN bands[1].reads
    ELSE FMax(bands[1].reads, MaxReads(Tail(bands)))

\* A drawing element added by dwg.add; owner = <<lane number, band index>>
\* of the Band object it was drawn for (lane 0 is the ladder), <<-1, 0>> else
Rect(x, y, w, h, opacity, owner) ==
    [kind |-> "rect", x |-> x, y |-> y, w |-> w, h |-> h,
     opacity |-> opacity, owner |-> owner]
Text(x, y, owner) ==
    [kind |-> "text", x |-> x, y |-> y, w |-> 0, h |-> 0,
     opacity |-> Frac(1, 1), owner |-> owner]

\* Band.draw: the band line, then its label group
BandDraw(dwg, owner, xCoord, yCoord, intensity, dParam, isLadder) ==
    LET x == IF isLadder THEN xCoord - (dParam.margin * 2) \div 3 ELSE 0
        y == IF isLadder THEN yCoord + 3
             ELSE dParam.gelHeight + 2 * dParam.margin - 5
    IN  dwg \o << Rect(xCoord, yCoord, dParam.laneWidth, 1, intensity, owner),
                  Text(x, y, owner) >>

minBandIntensity == Frac(1, 5)

\* Normalize that answers the floor instead of dividing by a zero maxNum
NormalizeSilent(band, maxNum) ==
    IF maxNum.num = 0
    THEN [err |-> "none", val |-> minBandIntensity]
    ELSE [err |-> "none",
          val |-> FMax(FSub(Frac(1, 1), FDiv(FSub(maxNum, band.reads), maxNum)),
                       minBandIntensity)]

\* Normalize without max(val, minBandIntensity)
NormalizeNoFloor(band, maxNum) ==
    IF maxNum.num = 0
    THEN [err |-> "ZeroDivisionError", val |-> Frac(0, 1)]
    ELSE [err |-> "none",
          val |-> FSub(Frac(1, 1), FDiv(FSub(maxNum, band.reads), maxNum))]

\* Lane.draw, the normalisation of a data band: [err, val]
Normalize(band, maxNum) ==
    IF maxNum.num = 0
    THEN [err |-> "ZeroDivisionError", val |-> Frac(0, 1)]
    ELSE [err |-> "none",
          val |-> FMax(FSub(Frac(1, 1), FDiv(FSub(maxNum, band.reads), maxNum)),
                       minBandIntensity)]

\* Unseen without the look-up in SeenY
UnseenAlways(yCoord, SeenY) == TRUE

\* Lane.draw: "if yCoord not in SeenY"
Unseen(yCoord, SeenY) == yCoord \notin SeenY

\* Lane.draw, the loop over self.bands from index i on: [err, dwg]
RECURSIVE DrawBands(_, _, _, _, _, _, _, _, _)
DrawBands(lane, laneNo, i, SeenY, dwg, xCoord, minBandSize, maxBandSize, dParam) ==
    IF i > Len(lane.bands) THEN [err |-> "none", dwg |-> dwg]
    ELSE
      LET band == lane.bands[i]
          ind  == lengthtoIndex(lane, band, minBandSize, maxBandSize)
          yCoord == ind.val + dParam.margin
          norm == IF lane.isLadder THEN [err |-> "none", val |-> band.reads]
                  ELSE Normalize(band, MaxReads(lane.bands))
      IN  IF ind.err # "none" THEN [err |-> ind.err, dwg |-> dwg]
          ELSE IF norm.err # "none" THEN [err |-> norm.err, dwg |-> dwg]
          ELSE IF Unseen(yCoord, SeenY)
          THEN DrawBands(lane, laneNo, i + 1, SeenY \cup {yCoord},
                         BandDraw(dwg, <<laneNo, i>>, xCoord, yCoord, norm.val,
                                  dParam, lane.isLadder),
                         xCoord, minBandSize, maxBandSize, dParam)
          ELSE DrawBands(lane, laneNo, i + 1, SeenY, dwg,
                         xCoord, minBandSize, maxBandSize, dParam)

\* Lane.draw: the name, max() over the reads, then the bands: [err, dwg]
LaneDraw(lane, laneNo, dwg, xCoord, minBandSize, maxBandSize, dParam) ==
    LET named == Append(dwg, Text(xCoord, LabelRow, <<-1, 0>>))
    IN  IF lane.bands = <<>> THEN [err |-> "ValueError", dwg |-> named]
        ELSE DrawBands(lane, laneNo, 1, {}, named, xCoord,
                       minBandSize, maxBandSize, dParam)

\* ------------------------------------------------------------------- Gel
Max2(a, b) == IF a > b THEN a ELSE b
Min2(a, b) == IF a < b THEN a ELSE b

\* every band of every lane, in order
RECURSIVE AllBands(_)
AllBands(ls) == IF ls = <<>> THEN <<>> ELSE Head(ls).bands \o AllBands(Tail(ls))

RECURSIVE MaxBases(_)
MaxBases(bands) ==
    IF Len(bands) = 1 THEN bands[1].numBases
    ELSE Max2(bands[1].numBases, MaxBases(Tail(bands)))

RECURSIVE MinBases(_)
MinBases(bands) ==
    IF Len(bands) = 1 THEN bands[1].numBases
    ELSE Min2(bands[1].numBases, MinBases(Tail(bands)))

\* Gel.__makeLadder: ladderBands[ind1] and ladderBands[ind2] (1-based here)
Prev(ladderBands, ind) == ladderBands[Max2(1, ind - 1)]
Next1(ladderBands, ind) == ladderBands[Min2(Len(ladderBands), ind + 1)]

\* Gel.__makeLadder: the second and third disjunct of the test that selects
\* a marker, which are also the tests that update newMin and newMax
BelowTest(ladderBands, ind, lo, hi) ==
    Prev(ladderBands, ind) < hi /\ ladderBands[ind] > lo
AboveTest(ladderBands, ind, lo, hi) ==
    Next1(ladderBands, ind) > lo /\ ladderBands[ind] < hi

\* Selected without its third disjunct
SelectedNoAbove(ladderBands, ind, lo, hi) ==
    \/ ladderBands[ind] < hi /\ ladderBands[ind] > lo
    \/ BelowTest(ladderBands, ind, lo, hi)

\* Gel.__makeLadder: the test that selects marker ind for the ladder
Selected(ladderBands, ind, lo, hi) ==
    \/ ladderBands[ind] < hi /\ ladderBands[ind] > lo
    \/ BelowTest(ladderBands, ind, lo, hi)
    \/ AboveTest(ladderBands, ind, lo, hi)

\* Gel.__makeLadder: the loop over ladderBands from index ind on, with the
\* data range lo..hi: [bands, newMin, newMax]
RECURSIVE LadderScan(_, _, _, _, _, _, _, _)
LadderScan(ladderBands, boldLadder, ind, lo, hi, bands, newMin, newMax) ==
    IF ind > Len(ladderBands)
    THEN [bands |-> bands, newMin |-> newMin, newMax |-> newMax]
    ELSE
      LET length == ladderBands[ind]
          intensity == IF length \in boldLadder THEN Frac(1, 1) ELSE Frac(1, 2)
      IN  IF Selected(ladderBands, ind, lo, hi)
          THEN LadderScan(ladderBands, boldLadder, ind + 1, lo, hi,
                 Append(bands, [numBases |-> length, reads |-> intensity]),
                 IF BelowTest(ladderBands, ind, lo, hi)
                    /\ Prev(ladderBands, ind) < newMin
                 THEN Prev(ladderBands, ind) ELSE newMin,
                 IF AboveTest(ladderBands, ind, lo, hi)
                    /\ Next1(ladderBands, ind) > newMax
                 THEN Next1(ladderBands, ind) ELSE newMax)
          ELSE LadderScan(ladderBands, boldLadder, ind + 1, lo, hi,
                          bands, newMin, newMax)

\* Gel.__makeLadder: [err, bands, minNBases, maxNBases]; max() and min()
\* raise ValueError on no lanes and on a lane without bands
makeLadder(ls, ladderBands, boldLadder) ==
    IF ls = <<>> \/ \E k \in 1..Len(ls) : ls[k].bands = <<>>
    THEN [err |-> "ValueError", bands |-> <<>>, minNBases |-> 100000,
          maxNBases |-> 0]
    ELSE
      LET hi == MaxBases(AllBands(ls))
          lo == MinBases(AllBands(ls))
          scan == LadderScan(ladderBands, boldLadder, 1, lo, hi, <<>>,
                             newMinInit, newMaxInit)
      IN  [err |-> "none", bands |-> scan.bands,
           minNBases |-> IF scan.newMin # 0 /\ scan.newMin < lo
                         THEN scan.newMin ELSE lo,
           maxNBases |-> IF scan.newMax # 0 /\ scan.newMax > hi
                         THEN scan.newMax ELSE hi]

\* Gel.draw: gelWidth
GelWidth(ls, dp) ==
    dp.margin * 2 + (Len(ls) - 1) * dp.gapWidth + Len(ls) * dp.laneWidth

\* Gel.draw: xCoord of the data lane at 0-based position index
LaneX(index, dp) == dp.margin + (index + 1) * (dp.gapWidth + dp.laneWidth)

\* Gel.draw, the loop over self.lanes from the 1-based position k on
RECURSIVE DrawLanes(_, _, _, _, _, _)
DrawLanes(ls, k, d, lo, hi, dp) ==
    IF k > Len(ls) THEN [err |-> "none", dwg |-> d]
    ELSE LET r == LaneDraw(ls[k], k, d, LaneX(k - 1, dp), lo, hi, dp)
         IN  IF r.err # "none" THEN r
             ELSE DrawLanes(ls, k + 1, r.dwg, lo, hi, dp)

\* Gel.draw up to the save or the return: [err, dwg]
GelDraw(d, ls, lad, lo, hi, dp) ==
    LET bg == Append(d, Rect(0, 0, GelWidth(ls, dp),
                             dp.gelHeight + 2 * dp.margin, Frac(1, 1), <<-1, 0>>))
        r  == LaneDraw(lad, 0, bg, dp.margin, lo, hi, dp)
    IN  IF r.err # "none" THEN r ELSE DrawLanes(ls, 1, r.dwg, lo, hi, dp)

\* ----------------------------------------------------------------- state
VARIABLES
    lanes,      \* the Lane objects the caller built and hands to Gel(...)
    pc,         \* "new": Gel not yet built, "gel": built, "raised": Gel(...) raised
    dParam,     \* Gel.dParam
    filename,   \* Gel.filename: TRUE when an output file was named
    ladder,     \* Gel.ladder
    minNBases,  \* Gel.minNBases
    maxNBases,  \* Gel.maxNBases
    dwg,        \* Gel.dwg: the elements added so far
    ladderBands,\* the ladder argument of Gel(...)
    rets,       \* what each call of draw() gave the caller, oldest first:
                \* kind "doc" (the string), "None" (saved) or "raise", and
                \* first, the position in dwg of the first element it added
    saved       \* the output file: <<>> until dwg.save() wrote it

vars == <<lanes, pc, dParam, filename, ladder, minNBases, maxNBases, dwg,
          ladderBands, rets, saved>>

NoLane == Lane(<<>>, DefaultParams, TRUE)

\* The caller builds each lane with a drawParams object of its choice
Init ==
    /\ \E bl \in LaneLists :
         \E lp \in [1..Len(bl) -> ParamSet] :
            lanes = [k \in 1..Len(bl) |-> Lane(bl[k], lp[k], FALSE)]
    /\ pc = "new"
    /\ dParam = DefaultParams
    /\ filename = FALSE
    /\ ladder = NoLane
    /\ minNBases = 100000
    /\ maxNBases = 0
    /\ dwg = <<>>
    /\ ladderBands = DefaultLadder
    /\ rets = <<>>
    /\ saved = <<>>

\* Gel.__init__(lanes, dParam, ladder, boldLadder, filename)
GelInit ==
    /\ pc = "new"
    /\ \E dp \in ParamSet, markers \in LadderSet, fn \in BOOLEAN :
         LET m == makeLadder(lanes, markers, DefaultBoldLadder)
         IN  /\ dParam' = dp
             /\ ladderBands' = markers
             /\ filename' = fn
             /\ minNBases' = m.minNBases
             /\ maxNBases' = m.maxNBases
             /\ IF m.err # "none"
                THEN pc' = "raised" /\ ladder' = ladder
                ELSE pc' = "gel" /\ ladder' = Lane(m.bands, dp, TRUE)
    /\ UNCHANGED <<lanes, dwg, rets, saved>>

\* Gel.draw()
Draw ==
    /\ pc = "gel"
    /\ Len(rets) < MaxDraws
    /\ LET r == GelDraw(dwg, lanes, ladder, minNBases, maxNBases, dParam)
           ret(kind, doc) == [kind |-> kind, doc |-> doc, err |-> r.err,
                              first |-> Len(dwg) + 1]
       IN  /\ dwg' = r.dwg
           /\ IF r.err # "none"
              THEN rets' = Append(rets, ret("raise", <<>>)) /\ saved' = saved
              ELSE IF filename
              THEN rets' = Append(rets, ret("None", <<>>)) /\ saved' = r.dwg
              ELSE rets' = Append(rets, ret("doc", r.dwg)) /\ saved' = saved
    /\ UNCHANGED <<lanes, pc, dParam, filename, ladder, minNBases, maxNBases,
                   ladderBands>>

Next == GelInit \/ Draw

Spec == Init /\ [][Next]_vars

\* ------------------------------------------------------- reading a state
\* The elements the n-th call of draw() added to the drawing
Added(n) ==
    SubSeq(dwg, rets[n].first,
           IF n < Len(rets) THEN rets[n + 1].first - 1 ELSE Len(dwg))

\* The n-th call of draw() ran to its end
Completed(n) == n \in 1..Len(rets) /\ rets[n].kind # "raise"

\* Lane number 0 is the ladder, lane number k the k-th data lane
LaneNo(k) == IF k = 0 THEN ladder ELSE lanes[k]

\* The row Lane.draw computes for band i of lane k of the Gel
Row(k, i) == lengthtoIndex(LaneNo(k), LaneNo(k).bands[i], minNBases, maxNBases).val

\* The band lines a list of elements holds for lane k
RectsOf(elems, k) ==
    { j \in 1..Len(elems) : elems[j].kind = "rect" /\ elems[j].owner[1] = k }

\* Band i of lane k has a band line in the elements
Rendered(elems, k, i) == \E j \in RectsOf(elems, k) : elems[j].owner[2] = i

\* ---------------------------------------------------------------- claims

\* C1: two calls of draw() on a Gel without output file return the same
\* document: the second call's elements equal the first call's.
C1_DrawIdempotent ==
    (pc = "gel" /\ ~filename /\ Len(rets) >= 2 /\ rets[1].kind = "doc")
        => rets[2].kind = "doc" /\ rets[2].doc = rets[1].doc

\* The lanes of the Gel, the ladder first
LaneNos == 0..Len(lanes)
BandNos(k) == 1..Len(LaneNo(k).bands)

\* lane with the bands at positions i and j exchanged
Swapped(lane, i, j) ==
    [lane EXCEPT !.bands = [@ EXCEPT ![i] = lane.bands[j], ![j] = lane.bands[i]]]

DataMin == MinBases(AllBands(lanes))
DataMax == MaxBases(AllBands(lanes))
Markers == { ladderBands[i] : i \in 1..Len(ladderBands) }
LadderLengths == { ladder.bands[i].numBases : i \in 1..Len(ladder.bands) }
Largest(S) == { m \in S : \A o \in S : o <= m }
Smallest(S) == { m \in S : \A o \in S : o >= m }

\* C3: the final min_length is the smallest data length or the largest
\* marker below it, the final max_length the largest data length or the
\* smallest marker above it, and nothing else.
C3_RangeWidening ==
    pc = "gel" =>
      /\ minNBases \in {DataMin} \cup Largest({ m \in Markers : m < DataMin })
      /\ maxNBases \in {DataMax} \cup Smallest({ m \in Markers : m > DataMax })

\* C4 as claimed: for data of positive lengths the ladder holds the markers strictly inside the data
\* range, the nearest marker at or below its low end and the nearest marker
\* at or above its high end whenever the list has such a marker, in
\* ascending order.
C4_LadderInclusionOriginal ==
    (pc = "gel" /\ DataMin > 0) =>
      /\ LadderLengths =
            { m \in Markers : DataMin < m /\ m < DataMax }
              \cup Largest({ m \in Markers : m <= DataMin })
              \cup Smallest({ m \in Markers : m >= DataMax })
      /\ \A i, j \in 1..Len(ladder.bands) :
            i < j => ladder.bands[i].numBases < ladder.bands[j].numBases

\* C4 amended: the nearest marker at or below the low end is in the ladder
\* only when the list has a marker above the low end, the nearest marker at
\* or above the high end only when the list has a marker below the high
\* end, and a marker equal to both ends of a single-length range is left out.
C4_LadderInclusion ==
    pc = "gel" =>
      /\ LadderLengths =
            { m \in Markers : DataMin < m /\ m < DataMax }
              \cup { m \in Largest({ o \in Markers : o <= DataMin }) :
                       /\ \E o \in Markers : o > DataMin
                       /\ ~(DataMin = DataMax /\ m = DataMin) }
              \cup { m \in Smallest({ o \in Markers : o >= DataMax }) :
                       /\ \E o \in Markers : o < DataMax
                       /\ ~(DataMin = DataMax /\ m = DataMax) }
      /\ \A i, j \in 1..Len(ladder.bands) :
            i < j => ladder.bands[i].numBases < ladder.bands[j].numBases

\* Data from 110 to 150 on the default markers: the ladder is 100, 125, 150
C4_Witness ==
    /\ pc = "gel" /\ DataMin = 110 /\ DataMax = 150
    /\ ladderBands = DefaultLadder
    /\ [i \in 1..Len(ladder.bands) |-> ladder.bands[i].numBases] = <<100, 125, 150>>

\* Every length positive, a range of more than one length, and reads above
\* zero in every data lane
DataValid ==
    /\ \A k \in 1..Len(lanes) :
          /\ \A i \in BandNos(k) : lanes[k].bands[i].numBases > 0
          /\ lanes[k].bands # <<>> /\ MaxReads(lanes[k].bands).num > 0
    /\ DataMin < DataMax

\* C5: with no marker selected and valid data, draw() completes and the
\* document holds the data bands and no ladder band.
C5_EmptyLadderLegal ==
    (pc = "gel" /\ ladder.bands = <<>> /\ DataValid) =>
      \A n \in 1..Len(rets) :
        /\ Completed(n)
        /\ RectsOf(Added(n), 0) = {}
        /\ \A k \in 1..Len(lanes) : Rendered(Added(n), k, 1)

\* C6: in a completed draw the background is as wide as two margins, one lane width for each
\* lane counting the ladder, and the gaps between them; the ladder is at
\* x = margin, data lane i at margin + (i+1)*(gapWidth+laneWidth), and the
\* last lane ends one margin before the right edge.
C6_CanvasWidth ==
    \A n \in 1..Len(rets) : Completed(n) =>
      LET laneCount == Len(lanes) + 1
          width == 2 * dParam.margin + (laneCount - 1) * dParam.gapWidth
                     + laneCount * dParam.laneWidth
      IN  /\ Added(n)[1].kind = "rect" /\ Added(n)[1].w = width
          /\ \A k \in LaneNos : \A j \in RectsOf(Added(n), k) :
                Added(n)[j].x = dParam.margin + k * (dParam.gapWidth + dParam.laneWidth)
          /\ LaneX(Len(lanes) - 1, dParam) + dParam.laneWidth = width - dParam.margin

\* The band a band line was drawn for
BandOf(e) == LaneNo(e.owner[1]).bands[e.owner[2]]

\* C7: a band line of a data lane whose largest reads is above zero has the
\* intensity max(reads / maxReads, 0.2), which is between 0.2 and 1 and is 1
\* for a band with the largest reads; a band line of the ladder has the
\* reads of its band.
C7_Intensity ==
    \A j \in 1..Len(dwg) : (dwg[j].kind = "rect" /\ dwg[j].owner[1] >= 0) =>
      LET reads == BandOf(dwg[j]).reads
          maxReads == MaxReads(LaneNo(dwg[j].owner[1]).bands)
          share == Frac(reads.num * maxReads.den, reads.den * maxReads.num)
      IN  IF dwg[j].owner[1] = 0 THEN dwg[j].opacity = reads
          ELSE maxReads.num > 0 =>
                 /\ dwg[j].opacity.den > 0
                 /\ FEq(dwg[j].opacity, FMax(share, Frac(1, 5)))
                 /\ ~FLess(dwg[j].opacity, Frac(1, 5))
                 /\ ~FLess(Frac(1, 1), dwg[j].opacity)
                 /\ FEq(reads, maxReads) => FEq(dwg[j].opacity, Frac(1, 1))

\* One data lane shows a band at full intensity and a band raised to 0.2,
\* next to a ladder band
C7_Witness ==
    \E a, b, c \in 1..Len(dwg) :
      /\ dwg[a].kind = "rect" /\ dwg[b].kind = "rect" /\ dwg[c].kind = "rect"
      /\ dwg[a].owner[1] = 1 /\ dwg[b].owner[1] = 1 /\ dwg[c].owner[1] = 0
      /\ FEq(dwg[a].opacity, Frac(1, 1))
      /\ FEq(dwg[b].opacity, Frac(1, 5))
      /\ FLess(Frac(BandOf(dwg[b]).reads.num * 5, 1), MaxReads(lanes[1].bands))
      /\ dwg[c].opacity = Frac(1, 2)

\* An input the program cannot render
Fatal ==
    \/ lanes = <<>>
    \/ \E k \in 1..Len(lanes) :
          \/ lanes[k].bands = <<>>
          \/ \E i \in 1..Len(lanes[k].bands) : lanes[k].bands[i].numBases <= 0
          \/ \A i \in 1..Len(lanes[k].bands) : lanes[k].bands[i].reads.num = 0
    \/ pc = "gel" /\ minNBases = maxNBases

\* C8: on an input with no lanes, a lane without bands, a length <= 0, a
\* data lane of zero reads only, or a final range of one length, Gel(...)
\* raises or every draw() raises: no call returns a document and the output
\* file is not written.
C8_FatalAborts ==
    (Fatal /\ pc # "new") =>
      /\ pc = "raised" \/ \A n \in 1..Len(rets) : rets[n].kind = "raise"
      /\ \A n \in 1..Len(rets) : rets[n].doc = <<>>
      /\ saved = <<>>

\* draw() raised on a lane of zero reads after it had drawn the ladder, and
\* the named output file was not written
C8_Witness ==
    /\ pc = "gel" /\ filename /\ Len(rets) >= 1
    /\ rets[1].kind = "raise" /\ rets[1].err = "ZeroDivisionError"
    /\ RectsOf(dwg, 0) # {}
    /\ saved = <<>>
    /\ \A k \in 1..Len(lanes) : \A i \in BandNos(k) : lanes[k].bands[i].numBases > 0
    /\ minNBases < maxNBases

C10_BandsInsideGel ==
    \A j \in 1..Len(dwg) : (dwg[j].kind = "rect" /\ dwg[j].owner[1] >= 1) =>
      dwg[j].y \in dParam.margin .. (dParam.margin + dParam.gelHeight - 1)

====
